---- MODULE Spec2Model ----
(***************************************************************************)
(* Model of the concurrent measurement engine of llmapibenchmark:          *)
(*   src/internal/utils/speed.go  SpeedMeasurement.Run and its helpers     *)
(*   src/cmd/benchmark.go         Benchmark.measureSpeed, and the session  *)
(*                                Benchmark.run / Benchmark.runCli         *)
(*                                                                         *)
(* Number representation.  A float64 is modelled as an exact rational      *)
(* [n, d] in lowest terms with d > 0; d = 0 encodes the IEEE non-finite    *)
(* values a float64 division produces: [1,0] = +Inf, [-1,0] = -Inf and     *)
(* [0,0] = NaN.  IEEE -0 compares equal to 0 and is modelled as 0.  The    *)
(* running sum of the TTFTs, whose float64 rounding depends on the order   *)
(* of its terms, is computed bit for bit (see SumFloat64).                 *)
(* Times handed in by the environment (TTFT, wall-clock duration, the      *)
(* baseline latency) are integers in milliseconds.                         *)
(***************************************************************************)
EXTENDS Integers, Sequences, FiniteSets, TLC

\* Largest concurrency level the model explores.
MaxConcurrency == 3
\* Longest list handed to calculatePercentile in SpecPercentile.
MaxLen == 3

\* Goroutines the fanout loop can start; goroutine g is the one started in
\* loop iteration g.
Workers == 0..(MaxConcurrency - 1)
\* Values of setup.Concurrency explored (zero and negative included).
Concurrencies == (0 - 1)..MaxConcurrency
\* Baseline latencies, in ms (setup.Latency).
Latencies == {0, 2000}
\* Wall-clock durations time.Since(start) can report, in ms.
Durations == {1000, 2000}
\* What a successful client call can return.
Ttfts == {125, 410}
CompletionTokenCounts == {7}
PromptTokenCounts == {3}

(***************************************************************************)
(* float64 arithmetic.  The pure Go functions are TLA+ functions: applying *)
(* one works on the values of its arguments, as a Go call does.            *)
(***************************************************************************)
Abs(x) == IF x < 0 THEN 0 - x ELSE x

Sign(x) == IF x > 0 THEN 1 ELSE IF x < 0 THEN 0 - 1 ELSE 0

\* Euclid's algorithm.
GCD[a \in Nat, b \in Nat] == IF b = 0 THEN a ELSE GCD[b, a % b]

\* The float64 with value n/d (d = 0: the non-finite result of dividing n by 0).
Rat[n \in Int, d \in Int] ==
    IF d = 0 THEN [n |-> Sign(n), d |-> 0]
    ELSE LET g == GCD[Abs(n), Abs(d)]
             s == IF d < 0 THEN 0 - 1 ELSE 1
         IN  [n |-> (s * n) \div g, d |-> (s * d) \div g]

\* The float64 values.
Float64 == [n : Int, d : Int]

F0 == Rat[0, 1]

IsNaN(f) == f.d = 0 /\ f.n = 0
IsInf(f) == f.d = 0 /\ f.n # 0
IsFinite(f) == f.d # 0
IsNegative(f) == f.n < 0

\* a - b on finite floats.
FSub[a \in Float64, b \in Float64] == Rat[a.n * b.d - b.n * a.d, a.d * b.d]

\* a / b on finite floats: x/0 is +Inf or -Inf by the sign of x, 0/0 is NaN.
FDiv[a \in Float64, b \in Float64] == Rat[a.n * b.d, a.d * b.n]

\* math.Round of n/d (d > 0): to the nearest integer, halves away from zero.
MathRound[n \in Int, d \in Int] ==
    IF n >= 0 THEN (2 * n + d) \div (2 * d)
    ELSE 0 - ((2 * (0 - n) + d) \div (2 * d))

roundToTwoDecimals[f \in Float64] ==
    IF f.d = 0 THEN f ELSE Rat[MathRound[100 * f.n, f.d], 100]

(***************************************************************************)
(* float64 arithmetic, bit for bit, for the mean of the TTFTs.  Every      *)
(* operation gives the exact result rounded to 53 significant bits, ties   *)
(* to even, as IEEE 754 does.  A float64 that is zero or lies between 2^-8 *)
(* and 2^20 is held as the integer value * 2^60, written in four digits of *)
(* base 2^20, least significant first: its unit in the last place is then  *)
(* a power of two inside the lowest digit.                                 *)
(***************************************************************************)
LimbBase == 2^20

Pow2[e \in Nat] == IF e = 0 THEN 1 ELSE 2 * Pow2[e - 1]

\* The number of binary digits of x.
BitLen[x \in Nat] == IF x = 0 THEN 0 ELSE 1 + BitLen[x \div 2]

\* The digits of a with every carry moved up.
Carry[a \in Seq(Nat)] ==
    LET d2 == a[2] + (a[1] \div LimbBase)
        d3 == a[3] + (d2 \div LimbBase)
    IN  <<a[1] % LimbBase, d2 % LimbBase, d3 % LimbBase,
          a[4] + (d3 \div LimbBase)>>

\* The number of binary digits of the integer a stands for.
BitLenOf[a \in Seq(Nat)] ==
    IF a[4] > 0 THEN 60 + BitLen[a[4]]
    ELSE IF a[3] > 0 THEN 40 + BitLen[a[3]]
    ELSE IF a[2] > 0 THEN 20 + BitLen[a[2]]
    ELSE BitLen[a[1]]

\* The float64 nearest to a + rem/den (0 <= rem < den), ties to even.  A value
\* of fewer than 53 digits here is zero or exact.
RoundToFloat64[a \in Seq(Nat), rem \in Nat, den \in Nat] ==
    IF BitLenOf[a] < 53 THEN a
    ELSE LET ulp == Pow2[BitLenOf[a] - 53]
             low == a[1] % ulp
             twice == 2 * (low * den + rem)
             odd == (a[1] \div ulp) % 2 = 1
             up == twice > ulp * den \/ (twice = ulp * den /\ odd)
         IN  Carry[<<a[1] - low + (IF up THEN ulp ELSE 0), a[2], a[3], a[4]>>]

\* Quotient and remainder of a by a positive integer n <= 1000.
DivMod[a \in Seq(Nat), n \in Nat] ==
    LET c3 == (a[4] % n) * LimbBase + a[3]
        c2 == (c3 % n) * LimbBase + a[2]
        c1 == (c2 % n) * LimbBase + a[1]
    IN  [q |-> <<c1 \div n, c2 \div n, c3 \div n, a[4] \div n>>, r |-> c1 % n]

\* The float64 a time of ms milliseconds is in seconds: the nearest to ms/1000.
ToFloat64[ms \in Nat] ==
    LET d == DivMod[<<0, 0, 0, ms>>, 1000] IN RoundToFloat64[d.q, d.r, 1000]

\* a + b
FAdd[a \in Seq(Nat), b \in Seq(Nat)] ==
    RoundToFloat64[Carry[<<a[1] + b[1], a[2] + b[2], a[3] + b[3], a[4] + b[4]>>], 0, 1]

\* a / float64(n) for an integer n in 1..1000
FDivInt[a \in Seq(Nat), n \in Nat] ==
    LET d == DivMod[a, n] IN RoundToFloat64[d.q, d.r, n]

\* a * 100
FMul100[a \in Seq(Nat)] ==
    RoundToFloat64[Carry[<<100 * a[1], 100 * a[2], 100 * a[3], 100 * a[4]>>], 0, 1]

\* math.Round(a): to the nearest integer, halves away from zero.
MathRoundFloat64[a \in Seq(Nat)] ==
    a[4] + (IF a[3] >= LimbBase \div 2 THEN 1 ELSE 0)

\* sumTtft after the loop has added the values of s (ms) one by one, in the
\* order of s, to 0.0.
SumFloat64[s \in Seq(Int)] ==
    IF s = <<>> THEN <<0, 0, 0, 0>>
    ELSE FAdd[SumFloat64[SubSeq(s, 1, Len(s) - 1)], ToFloat64[s[Len(s)]]]

\* roundToTwoDecimals(sumTtft / float64(len(ttftValues))) for a non-empty s.
RoundedMean[s \in Seq(Int)] ==
    Rat[MathRoundFloat64[FMul100[FDivInt[SumFloat64[s], Len(s)]]], 100]

(***************************************************************************)
(* Statistics helpers.  A []float64 of TTFTs in seconds is a sequence of   *)
(* integers in milliseconds.                                               *)
(***************************************************************************)
SumSeq[s \in Seq(Int)] == IF s = <<>> THEN 0 ELSE Head(s) + SumSeq[Tail(s)]

\* s with x inserted before the first element greater than x (s ascending).
Insert[x \in Int, s \in Seq(Int)] ==
    IF s = <<>> THEN <<x>>
    ELSE IF x <= Head(s) THEN <<x>> \o s
    ELSE <<Head(s)>> \o Insert[x, Tail(s)]

\* sort.Float64s: the elements of s in ascending order.
SortFloat64s[s \in Seq(Int)] ==
    IF s = <<>> THEN <<>> ELSE Insert[Head(s), SortFloat64s[Tail(s)]]

\* math.Ceil of n/d, d > 0.
MathCeil[n \in Int, d \in Int] == 0 - ((0 - n) \div d)

\* Mutant of PercentileIndex: the product is truncated, not rounded up, and
\* used as the index.
PercentileIndexTruncated(len, percentile) ==
    LET index == (len * percentile.n) \div percentile.d
    IN  IF index < 0 THEN 0
        ELSE IF index >= len THEN len - 1
        ELSE index

\* The index calculatePercentile reads in the sorted copy (0-based).
PercentileIndex(len, percentile) ==
    LET index == MathCeil[len * percentile.n, percentile.d] - 1
    IN  IF index < 0 THEN 0
        ELSE IF index >= len THEN len - 1
        ELSE index

\* calculatePercentile: percentile is a finite float, the result is in ms.
calculatePercentile[values \in Seq(Int), percentile \in Float64] ==
    IF Len(values) = 0 THEN 0
    ELSE LET sorted == SortFloat64s[values]
         IN  sorted[PercentileIndex(Len(values), percentile) + 1]

\* The largest r in lo..hi with r * r <= x (lo * lo <= x < (hi + 1)^2).
ISqrtIn[x \in Nat, lo \in Nat, hi \in Nat] ==
    IF lo >= hi THEN lo
    ELSE LET mid == (lo + hi + 1) \div 2
         IN  IF mid * mid <= x THEN ISqrtIn[x, mid, hi]
             ELSE ISqrtIn[x, lo, mid - 1]

\* floor(math.Sqrt(x)) for 0 <= x < 2^30.
ISqrt[x \in Nat] == ISqrtIn[x, 0, 32767]

\* calculateStdDev: sqrt(sum((v - mean)^2) / len), values in ms, mean a finite
\* float in seconds.  Deviations are taken exactly, in units of 1/(1000 m) s
\* where 1000 m is the common denominator of the values and the mean.  The root
\* is irrational in general and is cut to a multiple of 0.0001 s; every
\* boundary of roundToTwoDecimals is such a multiple, so the rounded value the
\* caller stores is exact.
calculateStdDev[values \in Seq(Int), mean \in Float64] ==
    IF Len(values) = 0 THEN F0
    ELSE LET m == mean.d \div GCD[1000, mean.d]
             meanU == mean.n * ((1000 * m) \div mean.d)
             sq == [k \in 1..Len(values) |->
                       (values[k] * m - meanU) * (values[k] * m - meanU)]
         IN  Rat[ISqrt[(100 * SumSeq[sq]) \div (Len(values) * m * m)], 10000]

(***************************************************************************)
(* State                                                                   *)
(***************************************************************************)
VARIABLES
    args,                \* measureSpeed's parameters: [latency, concurrency]
    setup,               \* the SpeedMeasurement Run is called on
    pc,                  \* where the calling goroutine is
    i,                   \* the fanout loop's counter
    wg,                  \* the sync.WaitGroup's counter
    wpc,                 \* wpc[g]: where worker goroutine g is
    local,               \* local[g]: goroutine g's index, ttft, tokens and err
    ttfts,               \* sync.Map index -> ttft
    responseTokens,      \* sync.Map index -> completionTokens
    promptTokens,        \* sync.Map index -> inputTokens
    successfulRequests,  \* atomic.Int32
    failedRequests,      \* atomic.Int32
    duration,            \* time.Since(start), in ms
    totalResponseTokens,
    totalPromptTokens,
    ttftValues,          \* the slice the reducer collects from ttfts
    measurement,         \* the SpeedResult under construction
    runRet,              \* what Run returned: [done, result, err]
    msRet,               \* what measureSpeed returned: [done, result, err]
    stores,              \* history: <<map, key, goroutine>> -> Store calls made
    values,              \* SpecPercentile: the caller's slice
    percentile,          \* SpecPercentile: the percentile asked for
    pctRet               \* SpecPercentile: [done, value] of the last call

runVars == <<args, setup, pc, i, wg, wpc, local, ttfts, responseTokens,
             promptTokens, successfulRequests, failedRequests, duration,
             totalResponseTokens, totalPromptTokens, ttftValues, measurement,
             runRet, msRet, stores>>

pctVars == <<values, percentile, pctRet>>

\* A benchmark session: Benchmark.run or Benchmark.runCli.
VARIABLES
    benchmark,           \* the Benchmark: [ConcurrencyLevels, entry]
    spc,                 \* where the session is
    latencyMs,           \* the session's local latency
    levelIdx,            \* position of the range loop in ConcurrencyLevels
    results,             \* result.Results (run), results (runCli)
    resultLatency,       \* result.Latency (run)
    sessRet,             \* what the session returned: [done, err, saved]
    probes,              \* history: calls of utils.MeasureLatency
    calls                \* history: the arguments of each measureSpeed call

sessionVars == <<benchmark, spc, latencyMs, levelIdx, results, resultLatency,
                 sessRet, probes, calls>>

vars == <<runVars, pctVars, sessionVars>>

\* The zero value of SpeedResult.
ZeroResult ==
    [Concurrency |-> 0, GenerationSpeed |-> F0, PromptThroughput |-> F0,
     TotalThroughput |-> F0, MaxTtft |-> F0, MinTtft |-> F0, AvgTtft |-> F0,
     MedianTtft |-> F0, P95Ttft |-> F0, P99Ttft |-> F0, StdDevTtft |-> F0,
     SuccessRate |-> F0, SuccessfulRequests |-> 0, FailedRequests |-> 0,
     TotalPromptTokens |-> 0, TotalCompletionTokens |-> 0,
     AvgPromptTokens |-> F0, AvgCompletionTokens |-> F0, Duration |-> F0]

\* A goroutine's locals before its call returns.
ZeroLocal ==
    [index |-> 0, ttft |-> 0, completionTokens |-> 0, inputTokens |-> 0,
     err |-> "nil"]

\* An empty sync.Map.
EmptyMap == [k \in {} |-> 0]

NoReturn == [done |-> FALSE, result |-> ZeroResult, err |-> "nil"]

\* The state in which measureSpeed is entered, for every latency and level.
RunInit ==
    /\ args \in [latency : Latencies, concurrency : Concurrencies]
    /\ setup = [Latency |-> 0, Concurrency |-> 0]
    /\ pc = "measureSpeed"
    /\ i = 0
    /\ wg = 0
    /\ wpc = [g \in Workers |-> "unborn"]
    /\ local = [g \in Workers |-> ZeroLocal]
    /\ ttfts = EmptyMap
    /\ responseTokens = EmptyMap
    /\ promptTokens = EmptyMap
    /\ successfulRequests = 0
    /\ failedRequests = 0
    /\ duration = 0
    /\ totalResponseTokens = 0
    /\ totalPromptTokens = 0
    /\ ttftValues = <<>>
    /\ measurement = ZeroResult
    /\ runRet = NoReturn
    /\ msRet = NoReturn
    /\ stores = EmptyMap

PctIdle ==
    /\ values = <<>>
    /\ percentile = F0
    /\ pctRet = [done |-> FALSE, value |-> 0]

\* No session is under way: measureSpeed is called on its own.
SessionIdle ==
    /\ benchmark = [ConcurrencyLevels |-> <<>>, entry |-> "none"]
    /\ spc = "idle"
    /\ latencyMs = 0
    /\ levelIdx = 1
    /\ results = <<>>
    /\ resultLatency = 0
    /\ sessRet = [done |-> FALSE, err |-> "nil", saved |-> FALSE]
    /\ probes = 0
    /\ calls = <<>>

Init == RunInit /\ PctIdle /\ SessionIdle

(***************************************************************************)
(* sync.Map and slice helpers                                              *)
(***************************************************************************)
\* sync.Map.Store(k, v).
MapStore(m, k, v) ==
    [x \in (DOMAIN m) \cup {k} |-> IF x = k THEN v ELSE m[x]]

\* What a Range callback that adds every value up ends with.
RECURSIVE SumMap(_)
SumMap(m) ==
    IF DOMAIN m = {} THEN 0
    ELSE LET k == CHOOSE x \in DOMAIN m : TRUE
         IN  m[k] + SumMap([x \in (DOMAIN m) \ {k} |-> m[x]])

\* The slices a Range callback that appends every value can build: Range
\* visits each key once, in an order sync.Map does not specify.
RangeOrders(m) ==
    LET K == DOMAIN m
        n == Cardinality(K)
        visits == {f \in [1..n -> K] :
                      \A a, b \in 1..n : a # b => f[a] # f[b]}
    IN  {[j \in 1..n |-> m[f[j]]] : f \in visits}

\* The history of Store calls with one more call e.
Logged(h, e) ==
    [x \in (DOMAIN h) \cup {e} |->
        IF x = e THEN (IF e \in DOMAIN h THEN h[e] + 1 ELSE 1) ELSE h[x]]

\* The maximum the loop over a non-empty slice ends with.
MaxSeq[s \in Seq(Int)] ==
    IF Len(s) = 1 THEN s[1]
    ELSE LET r == MaxSeq[Tail(s)] IN IF s[1] > r THEN s[1] ELSE r

\* The minimum the loop over a non-empty slice ends with.
MinSeq[s \in Seq(Int)] ==
    IF Len(s) = 1 THEN s[1]
    ELSE LET r == MinSeq[Tail(s)] IN IF s[1] < r THEN s[1] ELSE r

(***************************************************************************)
(* The reducer: speed.go lines 160-202                                     *)
(***************************************************************************)
\* setup.Latency / 1000
LatencySeconds(latency) == Rat[latency, 1000]

\* duration.Seconds()
Seconds(d) == Rat[d, 1000]

\* The mean calculateStdDev is handed, given the unrounded mean and the
\* AvgTtft field already stored.
StdDevMean(exactMean, avgTtft) == avgTtft

\* The maximum TTFT the prompt-throughput denominator is built from, given
\* the unrounded maximum and the MaxTtft field already stored.
PromptDenominatorTtft(exactMax, maxTtft) == maxTtft

\* The TTFT statistics block, lines 160-179 (and the rounding of lines 181-182).
TtftStats(m, tv) ==
    IF Len(tv) > 0
    THEN LET exactMean == Rat[SumSeq[tv], 1000 * Len(tv)]
             avg == RoundedMean[tv]
         IN  [m EXCEPT
                 !.MaxTtft = roundToTwoDecimals[Rat[MaxSeq[tv], 1000]],
                 !.MinTtft = roundToTwoDecimals[Rat[MinSeq[tv], 1000]],
                 !.AvgTtft = avg,
                 !.MedianTtft =
                     roundToTwoDecimals[Rat[calculatePercentile[tv, Rat[50, 100]], 1000]],
                 !.P95Ttft =
                     roundToTwoDecimals[Rat[calculatePercentile[tv, Rat[95, 100]], 1000]],
                 !.P99Ttft =
                     roundToTwoDecimals[Rat[calculatePercentile[tv, Rat[99, 100]], 1000]],
                 !.StdDevTtft =
                     roundToTwoDecimals[calculateStdDev[tv, StdDevMean(exactMean, avg)]]]
    ELSE [m EXCEPT !.MaxTtft = roundToTwoDecimals[m.MaxTtft],
                   !.MinTtft = roundToTwoDecimals[m.MinTtft]]

\* The average-token block, lines 189-193.
AvgTokens(m, totalPrompt, totalResponse) ==
    IF m.SuccessfulRequests > 0
    THEN [m EXCEPT
             !.AvgPromptTokens =
                 roundToTwoDecimals[Rat[totalPrompt, m.SuccessfulRequests]],
             !.AvgCompletionTokens =
                 roundToTwoDecimals[Rat[totalResponse, m.SuccessfulRequests]]]
    ELSE m

\* The throughput block, lines 195-202.
Throughputs(m, tv, totalPrompt, totalResponse, d, latency) ==
    LET runDenominator == FSub[Seconds(d), LatencySeconds(latency)]
        exactMax == IF Len(tv) > 0 THEN Rat[MaxSeq[tv], 1000] ELSE F0
        promptDenominator ==
            FSub[PromptDenominatorTtft(exactMax, m.MaxTtft), LatencySeconds(latency)]
    IN  [m EXCEPT
            !.GenerationSpeed =
                roundToTwoDecimals[FDiv[Rat[totalResponse, 1], runDenominator]],
            !.PromptThroughput =
                roundToTwoDecimals[FDiv[Rat[totalPrompt, 1], promptDenominator]],
            !.TotalThroughput =
                roundToTwoDecimals[FDiv[Rat[totalPrompt + totalResponse, 1], runDenominator]]]

\* Lines 160-202: the SpeedResult Run returns, from the fields already loaded.
ReduceResult(m, tv, totalPrompt, totalResponse, d, latency) ==
    LET m1 == TtftStats(m, tv)
        m2 == [m1 EXCEPT !.Duration = roundToTwoDecimals[Seconds(d)],
                         !.TotalPromptTokens = totalPrompt,
                         !.TotalCompletionTokens = totalResponse]
        m3 == AvgTokens(m2, totalPrompt, totalResponse)
    IN  Throughputs(m3, tv, totalPrompt, totalResponse, d, latency)

(***************************************************************************)
(* The calling goroutine: measureSpeed and Run                             *)
(***************************************************************************)
\* measureSpeed builds the SpeedMeasurement and calls Run, which sets up its
\* shared state and takes the start time.
MeasureSpeedEnter ==
    /\ pc = "measureSpeed"
    /\ setup' = [Latency |-> args.latency, Concurrency |-> args.concurrency]
    /\ pc' = "loop"
    /\ UNCHANGED <<args, i, wg, wpc, local, ttfts, responseTokens, promptTokens,
                   successfulRequests, failedRequests, duration,
                   totalResponseTokens, totalPromptTokens, ttftValues,
                   measurement, runRet, msRet, stores, pctVars,
                   sessionVars>>

\* One iteration of the fanout loop: wg.Add(1), then go func(index){...}(i).
Launch ==
    /\ pc = "loop"
    /\ i < setup.Concurrency
    /\ wg' = wg + 1
    /\ wpc' = [wpc EXCEPT ![i] = "call"]
    /\ local' = [local EXCEPT ![i].index = i]
    /\ i' = i + 1
    /\ UNCHANGED <<args, setup, pc, ttfts, responseTokens, promptTokens,
                   successfulRequests, failedRequests, duration,
                   totalResponseTokens, totalPromptTokens, ttftValues,
                   measurement, runRet, msRet, stores, pctVars,
                   sessionVars>>

\* The loop condition fails.
LoopExit ==
    /\ pc = "loop"
    /\ ~(i < setup.Concurrency)
    /\ pc' = "wait"
    /\ UNCHANGED <<args, setup, i, wg, wpc, local, ttfts, responseTokens,
                   promptTokens, successfulRequests, failedRequests, duration,
                   totalResponseTokens, totalPromptTokens, ttftValues,
                   measurement, runRet, msRet, stores, pctVars,
                   sessionVars>>

\* Mutant of Wait: the wg.Wait() call is missing.
WaitWithoutJoin ==
    /\ pc = "wait"
    /\ duration' \in {d \in Durations : \A k \in DOMAIN ttfts : ttfts[k] <= d}
    /\ pc' = "rangeResponse"
    /\ UNCHANGED <<args, setup, i, wg, wpc, local, ttfts, responseTokens,
                   promptTokens, successfulRequests, failedRequests,
                   totalResponseTokens, totalPromptTokens, ttftValues,
                   measurement, runRet, msRet, stores, pctVars,
                   sessionVars>>

\* wg.Wait() returns once the counter is zero; the duration is then taken.
\* The clock is the environment's: any duration that is not shorter than a
\* TTFT already measured inside it.
Wait ==
    /\ pc = "wait"
    /\ wg = 0
    /\ duration' \in {d \in Durations : \A k \in DOMAIN ttfts : ttfts[k] <= d}
    /\ pc' = "rangeResponse"
    /\ UNCHANGED <<args, setup, i, wg, wpc, local, ttfts, responseTokens,
                   promptTokens, successfulRequests, failedRequests,
                   totalResponseTokens, totalPromptTokens, ttftValues,
                   measurement, runRet, msRet, stores, pctVars,
                   sessionVars>>

\* responseTokens.Range: the sum of the completion tokens.
RangeResponse ==
    /\ pc = "rangeResponse"
    /\ totalResponseTokens' = SumMap(responseTokens)
    /\ pc' = "rangePrompt"
    /\ UNCHANGED <<args, setup, i, wg, wpc, local, ttfts, responseTokens,
                   promptTokens, successfulRequests, failedRequests, duration,
                   totalPromptTokens, ttftValues, measurement, runRet, msRet,
                   stores, pctVars,
                   sessionVars>>

\* promptTokens.Range: the sum of the prompt tokens.
RangePrompt ==
    /\ pc = "rangePrompt"
    /\ totalPromptTokens' = SumMap(promptTokens)
    /\ pc' = "loadSuccessful"
    /\ UNCHANGED <<args, setup, i, wg, wpc, local, ttfts, responseTokens,
                   promptTokens, successfulRequests, failedRequests, duration,
                   totalResponseTokens, ttftValues, measurement, runRet, msRet,
                   stores, pctVars,
                   sessionVars>>

\* measurement := SpeedResult{}; Concurrency; successfulRequests.Load().
LoadSuccessful ==
    /\ pc = "loadSuccessful"
    /\ measurement' = [ZeroResult EXCEPT
                          !.Concurrency = setup.Concurrency,
                          !.SuccessfulRequests = successfulRequests]
    /\ pc' = "loadFailed"
    /\ UNCHANGED <<args, setup, i, wg, wpc, local, ttfts, responseTokens,
                   promptTokens, successfulRequests, failedRequests, duration,
                   totalResponseTokens, totalPromptTokens, ttftValues, runRet,
                   msRet, stores, pctVars,
                   sessionVars>>

\* failedRequests.Load(), then the success rate over the configured total.
LoadFailed ==
    /\ pc = "loadFailed"
    /\ measurement' =
           [measurement EXCEPT
               !.FailedRequests = failedRequests,
               !.SuccessRate =
                   IF setup.Concurrency > 0
                   THEN Rat[measurement.SuccessfulRequests, setup.Concurrency]
                   ELSE measurement.SuccessRate]
    /\ pc' = "rangeTtfts"
    /\ UNCHANGED <<args, setup, i, wg, wpc, local, ttfts, responseTokens,
                   promptTokens, successfulRequests, failedRequests, duration,
                   totalResponseTokens, totalPromptTokens, ttftValues, runRet,
                   msRet, stores, pctVars,
                   sessionVars>>

\* ttfts.Range: the TTFT values, in the order Range visits them.
RangeTtfts ==
    /\ pc = "rangeTtfts"
    /\ ttftValues' \in RangeOrders(ttfts)
    /\ pc' = "reduce"
    /\ UNCHANGED <<args, setup, i, wg, wpc, local, ttfts, responseTokens,
                   promptTokens, successfulRequests, failedRequests, duration,
                   totalResponseTokens, totalPromptTokens, measurement, runRet,
                   msRet, stores, pctVars,
                   sessionVars>>

\* The statistics and throughput figures, and Run's return.
Reduce ==
    /\ pc = "reduce"
    /\ \E result \in {ReduceResult(measurement, ttftValues, totalPromptTokens,
                                    totalResponseTokens, duration, setup.Latency)} :
           /\ measurement' = result
           /\ runRet' = [done |-> TRUE, result |-> result, err |-> "nil"]
    /\ pc' = "runReturned"
    /\ UNCHANGED <<args, setup, i, wg, wpc, local, ttfts, responseTokens,
                   promptTokens, successfulRequests, failedRequests, duration,
                   totalResponseTokens, totalPromptTokens, ttftValues, msRet,
                   stores, pctVars,
                   sessionVars>>

\* measureSpeed wraps an error of Run and otherwise hands the result on.
MeasureSpeedReturn ==
    /\ pc = "runReturned"
    /\ msRet' = [done |-> TRUE, result |-> runRet.result,
                 err |-> IF runRet.err # "nil" THEN "measurement error" ELSE "nil"]
    /\ pc' = "done"
    /\ UNCHANGED <<args, setup, i, wg, wpc, local, ttfts, responseTokens,
                   promptTokens, successfulRequests, failedRequests, duration,
                   totalResponseTokens, totalPromptTokens, ttftValues,
                   measurement, runRet, stores, pctVars,
                   sessionVars>>

(***************************************************************************)
(* Worker goroutine g                                                      *)
(***************************************************************************)
\* What api.AskOpenAi / api.AskOpenAiRandomInput can return.
ClientReturns ==
    [ttft : Ttfts, completionTokens : CompletionTokenCounts,
     inputTokens : PromptTokenCounts, err : {"nil"}]
    \cup
    [ttft : {0}, completionTokens : {0}, inputTokens : {0}, err : {"error"}]

\* Mutant of StoreKey: the closure reads the loop's shared counter instead of
\* its own parameter.
StoreKeyLoopCounter(g) == i

\* The key goroutine g stores under: its index parameter.
StoreKey(g) == local[g].index

\* The client call of goroutine g returns.
CallReturns(g) ==
    /\ wpc[g] = "call"
    /\ \E r \in ClientReturns :
           local' = [local EXCEPT ![g] =
                        [index |-> local[g].index, ttft |-> r.ttft,
                         completionTokens |-> r.completionTokens,
                         inputTokens |-> r.inputTokens, err |-> r.err]]
    /\ wpc' = [wpc EXCEPT ![g] = "checkErr"]
    /\ UNCHANGED <<args, setup, pc, i, wg, ttfts, responseTokens, promptTokens,
                   successfulRequests, failedRequests, duration,
                   totalResponseTokens, totalPromptTokens, ttftValues,
                   measurement, runRet, msRet, stores, pctVars,
                   sessionVars>>

\* Mutant of FailedAdd: the failure is not counted.
FailedAddUncounted(g) ==
    /\ wpc[g] = "checkErr"
    /\ local[g].err # "nil"
    /\ wpc' = [wpc EXCEPT ![g] = "exit"]
    /\ UNCHANGED <<args, setup, pc, i, wg, local, ttfts, responseTokens,
                   promptTokens, successfulRequests, failedRequests, duration,
                   totalResponseTokens, totalPromptTokens, ttftValues,
                   measurement, runRet, msRet, stores, pctVars,
                   sessionVars>>

\* Mutant of FailedAdd: the return after counting the failure is missing, so
\* the goroutine goes on to the Store calls.
FailedAddFallsThrough(g) ==
    /\ wpc[g] = "checkErr"
    /\ local[g].err # "nil"
    /\ failedRequests' = failedRequests + 1
    /\ wpc' = [wpc EXCEPT ![g] = "storeTtft"]
    /\ UNCHANGED <<args, setup, pc, i, wg, local, ttfts, responseTokens,
                   promptTokens, successfulRequests, duration,
                   totalResponseTokens, totalPromptTokens, ttftValues,
                   measurement, runRet, msRet, stores, pctVars,
                   sessionVars>>

\* err != nil: failedRequests.Add(1); return.
FailedAdd(g) ==
    /\ wpc[g] = "checkErr"
    /\ local[g].err # "nil"
    /\ failedRequests' = failedRequests + 1
    /\ wpc' = [wpc EXCEPT ![g] = "exit"]
    /\ UNCHANGED <<args, setup, pc, i, wg, local, ttfts, responseTokens,
                   promptTokens, successfulRequests, duration,
                   totalResponseTokens, totalPromptTokens, ttftValues,
                   measurement, runRet, msRet, stores, pctVars,
                   sessionVars>>

\* err == nil: successfulRequests.Add(1).
SuccessAdd(g) ==
    /\ wpc[g] = "checkErr"
    /\ local[g].err = "nil"
    /\ successfulRequests' = successfulRequests + 1
    /\ wpc' = [wpc EXCEPT ![g] = "storeTtft"]
    /\ UNCHANGED <<args, setup, pc, i, wg, local, ttfts, responseTokens,
                   promptTokens, failedRequests, duration,
                   totalResponseTokens, totalPromptTokens, ttftValues,
                   measurement, runRet, msRet, stores, pctVars,
                   sessionVars>>

\* ttfts.Store(index, ttft).
StoreTtft(g) ==
    /\ wpc[g] = "storeTtft"
    /\ ttfts' = MapStore(ttfts, StoreKey(g), local[g].ttft)
    /\ stores' = Logged(stores, <<"ttfts", StoreKey(g), g>>)
    /\ wpc' = [wpc EXCEPT ![g] = "storeResponse"]
    /\ UNCHANGED <<args, setup, pc, i, wg, local, responseTokens, promptTokens,
                   successfulRequests, failedRequests, duration,
                   totalResponseTokens, totalPromptTokens, ttftValues,
                   measurement, runRet, msRet, pctVars,
                   sessionVars>>

\* responseTokens.Store(index, completionTokens).
StoreResponse(g) ==
    /\ wpc[g] = "storeResponse"
    /\ responseTokens' = MapStore(responseTokens, StoreKey(g), local[g].completionTokens)
    /\ stores' = Logged(stores, <<"responseTokens", StoreKey(g), g>>)
    /\ wpc' = [wpc EXCEPT ![g] = "storePrompt"]
    /\ UNCHANGED <<args, setup, pc, i, wg, local, ttfts, promptTokens,
                   successfulRequests, failedRequests, duration,
                   totalResponseTokens, totalPromptTokens, ttftValues,
                   measurement, runRet, msRet, pctVars,
                   sessionVars>>

\* promptTokens.Store(index, inputTokens).
StorePrompt(g) ==
    /\ wpc[g] = "storePrompt"
    /\ promptTokens' = MapStore(promptTokens, StoreKey(g), local[g].inputTokens)
    /\ stores' = Logged(stores, <<"promptTokens", StoreKey(g), g>>)
    /\ wpc' = [wpc EXCEPT ![g] = "exit"]
    /\ UNCHANGED <<args, setup, pc, i, wg, local, ttfts, responseTokens,
                   successfulRequests, failedRequests, duration,
                   totalResponseTokens, totalPromptTokens, ttftValues,
                   measurement, runRet, msRet, pctVars,
                   sessionVars>>

\* Mutant of WgDone: wg.Done() is the function's last statement instead of a
\* deferred call, so the early return of a failed request skips it.
WgDoneNotDeferred(g) ==
    /\ wpc[g] = "exit"
    /\ local[g].err = "nil"
    /\ wg' = wg - 1
    /\ wpc' = [wpc EXCEPT ![g] = "done"]
    /\ UNCHANGED <<args, setup, pc, i, local, ttfts, responseTokens,
                   promptTokens, successfulRequests, failedRequests, duration,
                   totalResponseTokens, totalPromptTokens, ttftValues,
                   measurement, runRet, msRet, stores, pctVars,
                   sessionVars>>

\* The deferred wg.Done() runs as the goroutine returns.
WgDone(g) ==
    /\ wpc[g] = "exit"
    /\ wg' = wg - 1
    /\ wpc' = [wpc EXCEPT ![g] = "done"]
    /\ UNCHANGED <<args, setup, pc, i, local, ttfts, responseTokens,
                   promptTokens, successfulRequests, failedRequests, duration,
                   totalResponseTokens, totalPromptTokens, ttftValues,
                   measurement, runRet, msRet, stores, pctVars,
                   sessionVars>>

WorkerStep(g) ==
    \/ CallReturns(g)
    \/ FailedAdd(g)
    \/ SuccessAdd(g)
    \/ StoreTtft(g)
    \/ StoreResponse(g)
    \/ StorePrompt(g)
    \/ WgDone(g)

MainStep ==
    \/ MeasureSpeedEnter
    \/ Launch
    \/ LoopExit
    \/ Wait
    \/ RangeResponse
    \/ RangePrompt
    \/ LoadSuccessful
    \/ LoadFailed
    \/ RangeTtfts
    \/ Reduce
    \/ MeasureSpeedReturn

Next == MainStep \/ \E g \in Workers : WorkerStep(g)

Spec == Init /\ [][Next]_vars

\* Go's scheduler is preemptive and every client call returns (the provision
\* the termination claim states): while some goroutine can take a step, a step
\* is taken.  This asks less than fairness to each goroutine would.
SpecFair == Spec /\ WF_vars(Next)

(***************************************************************************)
(* calculatePercentile on its own                                          *)
(***************************************************************************)
\* The TTFTs (ms) the lists are built from.
ListValues == {125, 200, 304}

\* Every list of at most MaxLen values, the empty one included.
Lists == UNION {[1..n -> ListValues] : n \in 0..MaxLen}

\* The percentiles asked for: those Run uses, both ends, and values outside
\* [0, 1].
Percentiles ==
    {Rat[0 - 1, 2], Rat[0, 1], Rat[1, 100], Rat[1, 2], Rat[95, 100],
     Rat[99, 100], Rat[1, 1], Rat[3, 2]}

InitPercentile ==
    /\ RunInit
    /\ args = [latency |-> 0, concurrency |-> 0]
    /\ values \in Lists
    /\ percentile \in Percentiles
    /\ pctRet = [done |-> FALSE, value |-> 0]
    /\ SessionIdle

\* One call calculatePercentile[values, percentile]: the function sorts a copy,
\* so the caller's slice is as it was.
CalculatePercentile ==
    /\ ~pctRet.done
    /\ pctRet' = [done |-> TRUE, value |-> calculatePercentile[values, percentile]]
    /\ values' = values
    /\ UNCHANGED <<percentile, runVars, sessionVars>>

NextPercentile == CalculatePercentile

SpecPercentile == InitPercentile /\ [][NextPercentile]_vars

(***************************************************************************)
(* The session: Benchmark.run and Benchmark.runCli                         *)
(***************************************************************************)
\* Longest list of concurrency levels a session is configured with.
MaxLevels == 2

\* The levels the lists are built from.
SessionLevels == {1, 2}

\* benchmark.ConcurrencyLevels: every list of at most MaxLevels levels.
LevelLists == UNION {[1..n -> SessionLevels] : n \in 0..MaxLevels}

\* What utils.MeasureLatency can return: a latency in ms, or an error.
LatencyReturns ==
    [latency : Latencies, err : {"nil"}] \cup [latency : {0}, err : {"error"}]

\* The row runCli keeps of a level's result.
Row(concurrency, r) ==
    [Concurrency |-> concurrency, GenerationSpeed |-> r.GenerationSpeed,
     PromptThroughput |-> r.PromptThroughput,
     TotalThroughput |-> r.TotalThroughput, MinTtft |-> r.MinTtft,
     AvgTtft |-> r.AvgTtft, MedianTtft |-> r.MedianTtft,
     P95Ttft |-> r.P95Ttft, P99Ttft |-> r.P99Ttft,
     StdDevTtft |-> r.StdDevTtft, SuccessRate |-> r.SuccessRate,
     SuccessfulRequests |-> r.SuccessfulRequests, Duration |-> r.Duration]

\* No measureSpeed call has been made yet.
RunIdle ==
    /\ args = [latency |-> 0, concurrency |-> 0]
    /\ setup = [Latency |-> 0, Concurrency |-> 0]
    /\ pc = "idle"
    /\ i = 0
    /\ wg = 0
    /\ wpc = [g \in Workers |-> "unborn"]
    /\ local = [g \in Workers |-> ZeroLocal]
    /\ ttfts = EmptyMap
    /\ responseTokens = EmptyMap
    /\ promptTokens = EmptyMap
    /\ successfulRequests = 0
    /\ failedRequests = 0
    /\ duration = 0
    /\ totalResponseTokens = 0
    /\ totalPromptTokens = 0
    /\ ttftValues = <<>>
    /\ measurement = ZeroResult
    /\ runRet = NoReturn
    /\ msRet = NoReturn
    /\ stores = EmptyMap

\* run or runCli is entered, for every list of levels.
InitSession ==
    /\ benchmark \in [ConcurrencyLevels : LevelLists, entry : {"run", "runCli"}]
    /\ spc = "probe"
    /\ latencyMs = 0
    /\ levelIdx = 1
    /\ results = <<>>
    /\ resultLatency = 0
    /\ sessRet = [done |-> FALSE, err |-> "nil", saved |-> FALSE]
    /\ probes = 0
    /\ calls = <<>>
    /\ RunIdle
    /\ PctIdle

\* utils.MeasureLatency(benchmark.BaseURL, 5) returns: on an error the session
\* returns it wrapped; otherwise the latency is kept (run also stores it in
\* result.Latency).
MeasureLatency ==
    /\ spc = "probe"
    /\ probes' = probes + 1
    /\ \E r \in LatencyReturns :
           IF r.err # "nil"
           THEN /\ sessRet' = [done |-> TRUE, saved |-> FALSE,
                               err |-> IF benchmark.entry = "run"
                                       THEN "error testing latency"
                                       ELSE "latency test error"]
                /\ spc' = "returned"
                /\ UNCHANGED <<latencyMs, resultLatency>>
           ELSE /\ latencyMs' = r.latency
                /\ resultLatency' =
                       IF benchmark.entry = "run" THEN r.latency ELSE resultLatency
                /\ spc' = "loop"
                /\ UNCHANGED sessRet
    /\ UNCHANGED <<benchmark, levelIdx, results, calls, runVars, pctVars>>

\* Mutant of TheLatency: a level is measured with a latency other than the one
\* probed at the start of the session.
TheLatencyProbedAgain == CHOOSE l \in Latencies : l # latencyMs

\* The latency argument of a level's measureSpeed call: the session's local.
TheLatency == latencyMs

\* The range loop takes the next level and calls
\* benchmark.measureSpeed(latency, concurrency, ...): a new SpeedMeasurement,
\* a new WaitGroup, new maps and counters.
CallMeasureSpeed ==
    /\ spc = "loop"
    /\ levelIdx <= Len(benchmark.ConcurrencyLevels)
    /\ args' = [latency |-> TheLatency,
                concurrency |-> benchmark.ConcurrencyLevels[levelIdx]]
    /\ calls' = Append(calls, args')
    /\ spc' = "measuring"
    /\ pc' = "measureSpeed"
    /\ setup' = [Latency |-> 0, Concurrency |-> 0]
    /\ i' = 0
    /\ wg' = 0
    /\ wpc' = [g \in Workers |-> "unborn"]
    /\ local' = [g \in Workers |-> ZeroLocal]
    /\ ttfts' = EmptyMap
    /\ responseTokens' = EmptyMap
    /\ promptTokens' = EmptyMap
    /\ successfulRequests' = 0
    /\ failedRequests' = 0
    /\ duration' = 0
    /\ totalResponseTokens' = 0
    /\ totalPromptTokens' = 0
    /\ ttftValues' = <<>>
    /\ measurement' = ZeroResult
    /\ runRet' = NoReturn
    /\ msRet' = NoReturn
    /\ stores' = EmptyMap
    /\ UNCHANGED <<benchmark, latencyMs, levelIdx, results, resultLatency,
                   sessRet, probes, pctVars>>

\* measureSpeed has returned: an error ends the session, a result is appended
\* (run keeps the SpeedResult, runCli a row of it) and the loop goes on.
AppendResult ==
    /\ spc = "measuring"
    /\ pc = "done"
    /\ IF msRet.err # "nil"
       THEN /\ sessRet' = [done |-> TRUE, saved |-> FALSE, err |-> "concurrency error"]
            /\ spc' = "returned"
            /\ UNCHANGED <<results, levelIdx>>
       ELSE /\ results' =
                   Append(results,
                          IF benchmark.entry = "run" THEN msRet.result
                          ELSE Row(benchmark.ConcurrencyLevels[levelIdx], msRet.result))
            /\ levelIdx' = levelIdx + 1
            /\ spc' = "loop"
            /\ UNCHANGED sessRet
    /\ UNCHANGED <<benchmark, latencyMs, resultLatency, probes, calls, runVars,
                   pctVars>>

\* The loop is over: run returns result and nil, runCli saves the rows with
\* utils.SaveResultsToMD and returns nil.
SessionReturn ==
    /\ spc = "loop"
    /\ ~(levelIdx <= Len(benchmark.ConcurrencyLevels))
    /\ sessRet' = [done |-> TRUE, err |-> "nil",
                   saved |-> (benchmark.entry = "runCli")]
    /\ spc' = "returned"
    /\ UNCHANGED <<benchmark, latencyMs, levelIdx, results, resultLatency,
                   probes, calls, runVars, pctVars>>

SessionStep ==
    \/ MeasureLatency
    \/ CallMeasureSpeed
    \/ AppendResult
    \/ SessionReturn

NextSession == SessionStep \/ Next

SpecSession == InitSession /\ [][NextSession]_vars

(***************************************************************************)
(* Claims                                                                  *)
(***************************************************************************)
\* The goroutines the loop has started.
Launched == {g \in Workers : wpc[g] # "unborn"}

\* The goroutines whose client call has returned.
Returned == {g \in Launched : wpc[g] # "call"}

\* The goroutines past their one counter increment.
Counted == {g \in Returned : wpc[g] # "checkErr"}

\* The goroutines whose call succeeded, and those whose call failed.
Succeeded == {g \in Returned : local[g].err = "nil"}
Failed == {g \in Returned : local[g].err # "nil"}

\* The calling goroutine is past wg.Wait().
PastJoin ==
    pc \in {"rangeResponse", "rangePrompt", "loadSuccessful", "loadFailed",
            "rangeTtfts", "reduce", "runReturned", "done"}

\* C1: for a concurrency N >= 1 the two counters never add up to more than N,
\* each goroutine has incremented exactly one of them exactly once as soon as
\* it is past its increment (the successful ones the success counter, the
\* failed ones the failure counter), and the SpeedResult Run returns has
\* SuccessfulRequests + FailedRequests = N.
C1_CountersAddUpToN ==
    setup.Concurrency >= 1 =>
        /\ successfulRequests + failedRequests <= setup.Concurrency
        /\ successfulRequests = Cardinality(Counted \cap Succeeded)
        /\ failedRequests = Cardinality(Counted \cap Failed)
        /\ runRet.done =>
               runRet.result.SuccessfulRequests + runRet.result.FailedRequests
                   = setup.Concurrency

\* C1's case: a run of two or more workers, some of which succeeded and some
\* of which failed, has returned.
C1_Witness ==
    /\ runRet.done
    /\ setup.Concurrency >= 2
    /\ runRet.result.SuccessfulRequests >= 1
    /\ runRet.result.FailedRequests >= 1

\* C2: once the calling goroutine is past wg.Wait() - when the duration is
\* taken, the counters are loaded and the three maps are ranged over - every
\* one of the N worker goroutines has terminated, and every sample is complete:
\* the three maps hold the same keys.
C2_JoinBarrier ==
    PastJoin =>
        /\ \A g \in Workers :
               IF g < setup.Concurrency THEN wpc[g] = "done" ELSE wpc[g] = "unborn"
        /\ wg = 0
        /\ DOMAIN ttfts = DOMAIN responseTokens
        /\ DOMAIN ttfts = DOMAIN promptTokens

\* C2's case: the reducer is about to run over the samples of a run in which
\* some workers succeeded and some failed.
C2_Witness ==
    /\ pc = "reduce"
    /\ setup.Concurrency >= 2
    /\ successfulRequests >= 1
    /\ failedRequests >= 1

\* A step of a worker goroutine g whose request failed: its call returning an
\* error, or any later step it takes.
FailureStep(g) ==
    /\ wpc'[g] # wpc[g]
    /\ local'[g].err # "nil"

\* C3: under fair scheduling, with every client call returning, Run returns in
\* every run - whichever workers fail, all N included; a step of a failed
\* worker changes neither the position nor the locals of any other worker,
\* nor any stored sample, nor the success counter; and the error Run returns
\* is nil.
C3_FailuresNeitherBlockNorPropagate ==
    /\ <>(runRet.done)
    /\ [](runRet.done => runRet.err = "nil")
    /\ [][\A g \in Workers :
             FailureStep(g) =>
                 /\ \A h \in Workers \ {g} :
                        wpc'[h] = wpc[h] /\ local'[h] = local[h]
                 /\ ttfts' = ttfts
                 /\ responseTokens' = responseTokens
                 /\ promptTokens' = promptTokens
                 /\ successfulRequests' = successfulRequests]_vars

\* C3's case: a run in which every one of two or more workers failed has
\* returned.
C3_Witness ==
    /\ runRet.done
    /\ setup.Concurrency >= 2
    /\ Failed = 0..(setup.Concurrency - 1)

\* The Store calls made on one slot.
StoresOn(m, k) == {e \in DOMAIN stores : e[1] = m /\ e[2] = k}

\* C4: the loop starts goroutines 0..i-1, exactly N of them once it is over,
\* with pairwise distinct indices in 0..N-1; every Store goes to the slot keyed
\* by the storing goroutine's own index; and each slot of each map is stored
\* to at most once, by one goroutine.
C4_WritesPartitionedByIndex ==
    /\ Launched = 0..(i - 1)
    /\ pc \notin {"measureSpeed", "loop"} =>
           Cardinality(Launched) =
               (IF setup.Concurrency > 0 THEN setup.Concurrency ELSE 0)
    /\ \A g \in Launched :
           /\ local[g].index \in 0..(setup.Concurrency - 1)
           /\ \A h \in Launched : local[g].index = local[h].index => g = h
    /\ \A e \in DOMAIN stores :
           /\ e[2] = local[e[3]].index
           /\ stores[e] = 1
           /\ StoresOn(e[1], e[2]) = {e}
    /\ DOMAIN ttfts = {e[2] : e \in {x \in DOMAIN stores : x[1] = "ttfts"}}
    /\ DOMAIN responseTokens =
           {e[2] : e \in {x \in DOMAIN stores : x[1] = "responseTokens"}}
    /\ DOMAIN promptTokens =
           {e[2] : e \in {x \in DOMAIN stores : x[1] = "promptTokens"}}

\* C4's case: two or more workers have each stored into all three maps.
C4_Witness ==
    /\ setup.Concurrency >= 2
    /\ Cardinality({e[3] : e \in {x \in DOMAIN stores : x[1] = "promptTokens"}}) >= 2

\* The sum of f[g] over the goroutines of S.
RECURSIVE SumOver(_, _)
SumOver(S, f) ==
    IF S = {} THEN 0
    ELSE LET g == CHOOSE x \in S : TRUE IN f[g] + SumOver(S \ {g}, f)

\* C5: no map ever holds more entries than successfulRequests counts; past the
\* join each map's keys are exactly the indices of the workers whose call
\* succeeded, each holding that worker's value; and the returned result counts
\* those workers and totals their tokens.
C5_FailedRequestsCarryNoSamples ==
    /\ Cardinality(DOMAIN ttfts) <= successfulRequests
    /\ Cardinality(DOMAIN responseTokens) <= successfulRequests
    /\ Cardinality(DOMAIN promptTokens) <= successfulRequests
    /\ PastJoin =>
           /\ DOMAIN ttfts = {local[g].index : g \in Succeeded}
           /\ DOMAIN responseTokens = {local[g].index : g \in Succeeded}
           /\ DOMAIN promptTokens = {local[g].index : g \in Succeeded}
           /\ \A g \in Succeeded :
                  /\ ttfts[local[g].index] = local[g].ttft
                  /\ responseTokens[local[g].index] = local[g].completionTokens
                  /\ promptTokens[local[g].index] = local[g].inputTokens
    /\ runRet.done =>
           /\ runRet.result.SuccessfulRequests = Cardinality(Succeeded)
           /\ Cardinality(DOMAIN ttfts) = runRet.result.SuccessfulRequests
           /\ runRet.result.TotalPromptTokens =
                  SumOver(Succeeded, [g \in Workers |-> local[g].inputTokens])
           /\ runRet.result.TotalCompletionTokens =
                  SumOver(Succeeded, [g \in Workers |-> local[g].completionTokens])

\* C5's case: a run with a failed worker and two successful ones has returned.
C5_Witness ==
    /\ runRet.done
    /\ Cardinality(Failed) >= 1
    /\ Cardinality(Succeeded) >= 2
    /\ runRet.result.TotalCompletionTokens > 0

\* The latency-corrected denominators, in ms: of the generation speed and the
\* total throughput, and of the prompt throughput.
RunDenominatorMs == duration - setup.Latency
PromptDenominatorMs ==
    (IF ttftValues # <<>> THEN MaxSeq[ttftValues] ELSE 0) - setup.Latency

\* An explicit sentinel: a non-finite value, or the zero the spec's error
\* section allows in its place.
IsSentinel(f) == ~IsFinite(f) \/ f = F0

\* C6: in the result Run returns no throughput field is negative, and a field
\* whose latency-corrected denominator is zero or negative holds a sentinel.
C6_NonPositiveDenominatorYieldsSentinel ==
    runRet.done =>
        /\ ~IsNegative(runRet.result.GenerationSpeed)
        /\ ~IsNegative(runRet.result.PromptThroughput)
        /\ ~IsNegative(runRet.result.TotalThroughput)
        /\ RunDenominatorMs <= 0 =>
               /\ IsSentinel(runRet.result.GenerationSpeed)
               /\ IsSentinel(runRet.result.TotalThroughput)
        /\ PromptDenominatorMs <= 0 =>
               IsSentinel(runRet.result.PromptThroughput)

\* C7: when all N >= 1 requests failed, the success rate, every TTFT
\* statistic, both token averages and the three throughput figures of the
\* returned result are exactly 0, whatever the duration and the latency.
C7_AllFailedGivesZeros ==
    (runRet.done /\ setup.Concurrency >= 1 /\ Succeeded = {}) =>
        /\ runRet.result.SuccessRate = F0
        /\ runRet.result.MinTtft = F0
        /\ runRet.result.MaxTtft = F0
        /\ runRet.result.AvgTtft = F0
        /\ runRet.result.MedianTtft = F0
        /\ runRet.result.P95Ttft = F0
        /\ runRet.result.P99Ttft = F0
        /\ runRet.result.StdDevTtft = F0
        /\ runRet.result.AvgPromptTokens = F0
        /\ runRet.result.AvgCompletionTokens = F0
        /\ runRet.result.GenerationSpeed = F0
        /\ runRet.result.PromptThroughput = F0
        /\ runRet.result.TotalThroughput = F0

\* C8: a concurrency level <= 0 launches no fanout, never reaches the reducer,
\* gets no SpeedResult from Run or measureSpeed, and makes measureSpeed return
\* an error.
C8_NonPositiveConcurrencyRejected ==
    args.concurrency <= 0 =>
        /\ Launched = {}
        /\ ~PastJoin
        /\ ~runRet.done
        /\ msRet.done => msRet.err # "nil"

\* C10: the stored statistics come from unrounded inputs: StdDevTtft is the
\* rounded population standard deviation around the exact mean of the TTFTs
\* (0 for identical values), PromptThroughput divides by the unrounded maximum
\* TTFT less the latency, and GenerationSpeed and TotalThroughput divide by the
\* unrounded duration less the latency.
C10_RoundingOnlyOnStoredValues ==
    (runRet.done /\ ttftValues # <<>>) =>
        LET exactMean == Rat[SumSeq[ttftValues], 1000 * Len(ttftValues)]
            exactMax == Rat[MaxSeq[ttftValues], 1000]
            lat == LatencySeconds(setup.Latency)
            runDen == FSub[Seconds(duration), lat]
        IN  /\ runRet.result.StdDevTtft =
                   roundToTwoDecimals[calculateStdDev[ttftValues, exactMean]]
            /\ (\A k \in 1..Len(ttftValues) : ttftValues[k] = ttftValues[1]) =>
                   runRet.result.StdDevTtft = F0
            /\ runRet.result.PromptThroughput =
                   roundToTwoDecimals[FDiv[Rat[totalPromptTokens, 1], FSub[exactMax, lat]]]
            /\ runRet.result.GenerationSpeed =
                   roundToTwoDecimals[FDiv[Rat[totalResponseTokens, 1], runDen]]
            /\ runRet.result.TotalThroughput =
                   roundToTwoDecimals[
                       FDiv[Rat[totalPromptTokens + totalResponseTokens, 1], runDen]]

\* ceil(len * p) as the least integer c with c >= len * p, for p = n/d, d > 0.
NearestRank(len, p) ==
    CHOOSE c \in (0 - 2 * len - 1)..(2 * len + 1) :
        /\ c * p.d >= len * p.n
        /\ (c - 1) * p.d < len * p.n

\* v is the element at 0-based position k of the ascending sort of s: at most
\* k elements are smaller and more than k are not larger.
IsOrderStatistic(v, k, s) ==
    /\ \E j \in 1..Len(s) : s[j] = v
    /\ Cardinality({j \in 1..Len(s) : s[j] < v}) <= k
    /\ Cardinality({j \in 1..Len(s) : s[j] <= v}) > k

\* C9: calculatePercentile returns 0 for the empty list and otherwise the
\* element at index ceil(len * p) - 1, clamped to [0, len - 1], of the
\* ascending sort: a member of the input, the maximum for p = 1, the one value
\* of a singleton for p in (0, 1]; and the call leaves the caller's slice as it
\* was.
C9_NearestRankPercentile ==
    /\ [](pctRet.done =>
            LET len == Len(values)
                rank == NearestRank(len, percentile) - 1
                k == IF rank < 0 THEN 0 ELSE IF rank >= len THEN len - 1 ELSE rank
            IN  /\ len = 0 => pctRet.value = 0
                /\ len > 0 => IsOrderStatistic(pctRet.value, k, values)
                /\ (len > 0 /\ percentile = Rat[1, 1]) =>
                       \A j \in 1..len : values[j] <= pctRet.value
                /\ (len = 1 /\ percentile.n > 0 /\ percentile.n <= percentile.d) =>
                       pctRet.value = values[1])
    /\ [][values' = values]_vars

\* C9's case: the median of an unsorted list of three distinct values has been
\* computed.
C9_Witness ==
    /\ pctRet.done
    /\ values = <<304, 125, 200>>
    /\ percentile = Rat[1, 2]
    /\ pctRet.value = 200

\* The TTFTs of the workers below n whose call succeeded, by ascending index.
RECURSIVE TtftsByIndex(_)
TtftsByIndex(n) ==
    IF n = 0 THEN <<>>
    ELSE TtftsByIndex(n - 1)
             \o (IF (n - 1) \in Succeeded THEN <<local[n - 1].ttft>> ELSE <<>>)

\* The SpeedResult the workers' outcomes, the duration and the latency give
\* when the samples are enumerated by ascending index.
OutcomeResult ==
    LET counts ==
            [ZeroResult EXCEPT
                !.Concurrency = setup.Concurrency,
                !.SuccessfulRequests = Cardinality(Succeeded),
                !.FailedRequests = Cardinality(Failed),
                !.SuccessRate =
                    IF setup.Concurrency > 0
                    THEN Rat[Cardinality(Succeeded), setup.Concurrency]
                    ELSE F0]
    IN  ReduceResult(counts, TtftsByIndex(MaxConcurrency),
                     SumOver(Succeeded, [g \in Workers |-> local[g].inputTokens]),
                     SumOver(Succeeded, [g \in Workers |-> local[g].completionTokens]),
                     duration, setup.Latency)

\* C11: the SpeedResult Run returns is a function of the per-worker outcomes
\* (success or failure, TTFT, prompt and completion tokens), the duration and
\* the baseline latency alone: whatever the order in which the workers
\* finished and whatever the order in which Range enumerated the samples, it
\* is the result the same outcomes give when enumerated by ascending index.
C11_ResultIndependentOfOrder ==
    runRet.done => runRet.result = OutcomeResult

\* A measureSpeed call of the session is under way.
Measuring == spc = "measuring" /\ pc # "done"

\* C12: in a session (run and runCli) utils.MeasureLatency is called exactly
\* once, before any level is measured, and its value is the latency argument
\* of every measureSpeed call and the Latency of every SpeedMeasurement; the
\* levels are called in the configured order, one at a time: while a level is
\* being measured the results of all levels before it, and no others, have
\* been appended, and when the next level is taken no worker of an earlier
\* level is still running; a session that returns nil has one result per
\* configured level, in order, and an error is returned at the first failure:
\* after a failed probe no level was called and no worker started, after a
\* failed level no further level was called.
C12_SessionProbesOnceMeasuresInOrder ==
    LET levels == benchmark.ConcurrencyLevels IN
    /\ probes <= 1
    /\ spc # "probe" => probes = 1
    /\ calls # <<>> => probes = 1 /\ spc # "probe"
    /\ Len(calls) <= Len(levels)
    /\ \A k \in 1..Len(calls) :
           /\ calls[k].latency = latencyMs
           /\ calls[k].concurrency = levels[k]
    /\ pc \notin {"idle", "measureSpeed"} =>
           /\ setup.Latency = latencyMs
           /\ setup.Concurrency = levels[Len(calls)]
    /\ benchmark.entry = "run" /\ calls # <<>> => resultLatency = latencyMs
    /\ Len(results) <= Len(calls)
    /\ Len(calls) <= Len(results) + 1
    /\ \A k \in 1..Len(results) : results[k].Concurrency = levels[k]
    /\ Measuring => Len(calls) = levelIdx /\ Len(results) = levelIdx - 1
    /\ spc = "loop" =>
           /\ Len(results) = Len(calls)
           /\ Len(calls) = levelIdx - 1
           /\ \A g \in Workers : wpc[g] \in {"unborn", "done"}
    /\ sessRet.done =>
           /\ spc = "returned"
           /\ sessRet.err = "nil" =>
                  /\ Len(results) = Len(levels)
                  /\ Len(calls) = Len(levels)
                  /\ probes = 1
           /\ sessRet.err \in {"error testing latency", "latency test error"} =>
                  /\ calls = <<>>
                  /\ results = <<>>
                  /\ Launched = {}
                  /\ pc = "idle"
           /\ sessRet.err = "concurrency error" =>
                  /\ msRet.err # "nil"
                  /\ Len(calls) = Len(results) + 1
    /\ spc = "returned" => sessRet.done

\* C12's case: a session of two different levels, probed with a non-zero
\* latency, has measured both and returned nil, a request having failed.
C12_Witness ==
    /\ sessRet.done
    /\ sessRet.err = "nil"
    /\ benchmark.ConcurrencyLevels = <<2, 1>>
    /\ latencyMs = 2000
    /\ Len(results) = 2
    /\ results[1].SuccessfulRequests = 1
    /\ results[2].Concurrency = 1

====
